---- MODULE Spec2Model ----
(***************************************************************************)
(* Reservation / payment core of the Auxin backend.                        *)
(*                                                                         *)
(* The store is the Appointment collection.  Every request handler is a    *)
(* process whose steps are the handler's awaits (store I/O and outbound    *)
(* calls to the payment provider and the calendar service); the code       *)
(* between two awaits runs atomically, as it does on the Node event loop,  *)
(* and a handler's code up to its first await runs with that await.        *)
(* Time is counted in minutes.  A stored date is a calendar day; in the     *)
(* booking flow the server's zone is UTC, so that `new Date(y, m-1, d)`    *)
(* and `new Date("YYYY-MM-DD")` name the same instant.  The past-date      *)
(* checks are modelled for servers in other zones as well.                 *)
(***************************************************************************)
EXTENDS Integers, FiniteSets, Sequences, TLC

\* ----------------------------------------------------------------- bounds
NumUsers == 2
NumSlots == 2
NumProcs == 2
MaxAppts == 2
ClockStep == 15
MaxTime == 30
MaxZone == 1
MaxDay == 2
MaxEvents == 3

\* ------------------------------------------------------ program constants
\* 15 * 60 * 1000 ms, in minutes
HOLD_TTL == 15

Users == 1..NumUsers
\* the first NumSlots slots of the 09:00-17:30 half-hour grid
Slots == 1..NumSlots
Dates == {1}
Procs == 1..NumProcs
Ids == 1..MaxAppts

VARIABLES
  appointments,   \* the Appointment collection: _id -> document
  nextId,         \* next _id the store assigns
  orders,         \* the payment provider: order id -> "none" | "created" | "completed"
  orderAmount,    \* the payment provider: order id -> the amount of the order
  now,            \* Date.now(), in minutes
  pc,             \* per request: the await it is suspended at
  loc,            \* per request: the handler's local variables
  last,           \* the response sent last
  completions,    \* per _id: how often capture metadata was persisted (0, 1, 2 = more)
  meetCalls,      \* per _id: how often createGoogleMeetEvent was invoked (0, 1, 2 = more)
  tz              \* the server's zone: local time minus UTC, in minutes

vars == <<appointments, nextId, orders, orderAmount, now, pc, loc, last,
          completions, meetCalls, tz>>

\* ------------------------------------------------------------- documents
\* paymentInfo; paypalOrderId / paypalTransactionId 0 stand for an absent
\* field.  The currency is MEETING_CURRENCY wherever an amount is written.
NoInfo ==
  [ paypalOrderId |-> 0, paypalTransactionId |-> 0, status |-> "none",
    amount |-> "none" ]

\* A document of the collection; googleMeetLink 0 stands for no link,
\* googleCalendarEventId 0 for no calendar event.
NullDoc ==
  [ id |-> 0, userId |-> 0, date |-> 0, time |-> 0, bookedSlots |-> {},
    status |-> "none", paymentStatus |-> "none", createdAt |-> 0,
    paymentInfo |-> NoInfo, googleMeetLink |-> 0, googleCalendarEventId |-> 0 ]

\* Schema default of paymentStatus for a document created without one.
DefaultPaymentStatus == "pending"

NewAppointment(id, u, d, t, st) ==
  [ NullDoc EXCEPT !.id = id, !.userId = u, !.date = d, !.time = t,
                   !.status = st, !.paymentStatus = DefaultPaymentStatus,
                   !.createdAt = now ]

Rows == { appointments[i] : i \in DOMAIN appointments }

Exists(id) == id \in DOMAIN appointments

\* Unique index of the collection on (date, time, status): would storing
\* document r (under its own _id) violate it?
DuplicateKey(r) ==
  \E x \in Rows :
    x.id # r.id /\ x.date = r.date /\ x.time = r.time /\ x.status = r.status

Remove(ids) == [ i \in DOMAIN appointments \ ids |-> appointments[i] ]

Put(r) == [ i \in DOMAIN appointments \cup {r.id} |->
              IF i = r.id THEN r ELSE appointments[i] ]

\* ------------------------------------------------------- request locals
\* The paths of a loaded document modified in memory and not yet saved, with
\* their values ("none", NoInfo, 0: not modified).
NoPatch ==
  [ status |-> "none", paymentStatus |-> "none", paymentInfo |-> NoInfo,
    googleMeetLink |-> 0, googleCalendarEventId |-> 0 ]

IdleLoc ==
  [ op |-> "none", user |-> 0, date |-> 0, time |-> 0, slots |-> {},
    toCheck |-> {}, cutoff |-> 0, id |-> 0, orderId |-> 0,
    doc |-> NullDoc, patch |-> NoPatch, replay |-> FALSE,
    orderStatus |-> "none", meetFailed |-> FALSE, captureCalls |-> 0,
    stage |-> "none", link |-> 0, price |-> "none" ]

\* A response: the handler, the appointment it names, the HTTP status and
\* code, and the appointment's status / paymentStatus if the body has them.
NoResponse ==
  [ op |-> "none", id |-> 0, date |-> 0, slots |-> {}, res |-> "none",
    conflictingSlot |-> 0, unavailable |-> {}, deletedCount |-> 0, hours |-> 0,
    status |-> "none", paymentStatus |-> "none", orderStatus |-> "none",
    amount |-> "none" ]

Min(S) == CHOOSE x \in S : \A y \in S : x <= y

\* ------------------------------------------------------------- dates
\* minutes of a day
DAY == 1440

\* new Date("YYYY-MM-DD"): midnight UTC of day d
ParseUTC(d) == d * DAY

\* new Date(year, month - 1, day): midnight of day d on the server's clock
ParseLocal(d) == d * DAY - tz

\* today = new Date(); today.setHours(0, 0, 0, 0)
TodayMidnight == ((now + tz) \div DAY) * DAY - tz

\* the calendar day it is on the server's clock
Today == (now + tz) \div DAY

\* the Date a document stores for day d: create-order parses the day on the
\* server's clock, /book as UTC (documents of create-order have bookedSlots)
StoredDate(x) == IF x.bookedSlots # {} THEN ParseLocal(x.date) ELSE ParseUTC(x.date)

\* the past-date checks
CreateOrderPastDate(d) == ParseLocal(d) < TodayMidnight

AvailablePastDate(d) == ParseUTC(d) < TodayMidnight

BookPastDate(d) == ParseUTC(d) < TodayMidnight

\* the response is sent and the request is over
Finish(p, L, r) ==
  /\ pc' = [pc EXCEPT ![p] = "idle"]
  /\ loc' = [loc EXCEPT ![p] = IdleLoc]
  /\ last' = [NoResponse EXCEPT !.op = L.op, !.id = L.id, !.date = L.date,
                                !.slots = L.slots, !.res = r,
                                !.orderStatus = L.orderStatus]

Goto(p, l) == pc' = [pc EXCEPT ![p] = l] /\ UNCHANGED last

\* requests that may still insert a document (a run stores at most cap
\* documents: a request that could store one more is not admitted)
InFlightCreates ==
  Cardinality({ p \in Procs : pc[p] \in {"co_check", "co_user", "co_insert",
                                          "bk_user", "bk_insert"} })

\* document.save() of an already stored document: the modified paths are
\* written over the stored document cur
Saved(cur, patch) ==
  [ cur EXCEPT
      !.status = IF patch.status # "none" THEN patch.status ELSE @,
      !.paymentStatus =
         IF patch.paymentStatus # "none" THEN patch.paymentStatus ELSE @,
      !.paymentInfo = IF patch.paymentInfo # NoInfo THEN patch.paymentInfo ELSE @,
      !.googleMeetLink =
         IF patch.googleMeetLink # 0 THEN patch.googleMeetLink ELSE @,
      !.googleCalendarEventId =
         IF patch.googleCalendarEventId # 0 THEN patch.googleCalendarEventId ELSE @ ]

\* save() fails when the document is gone from the store or the unique
\* index rejects the written document
SaveFails(id, patch) ==
  \/ ~Exists(id)
  \/ DuplicateKey(Saved(appointments[id], patch))

\* the empty collection, no request in flight
InitStore ==
  /\ appointments = <<>>
  /\ nextId = 1
  /\ orders = [o \in Ids |-> "none"]
  /\ orderAmount = [o \in Ids |-> "none"]
  /\ pc = [p \in Procs |-> "idle"]
  /\ loc = [p \in Procs |-> IdleLoc]
  /\ last = NoResponse
  /\ completions = [i \in Ids |-> 0]
  /\ meetCalls = [i \in Ids |-> 0]

Init ==
  /\ InitStore
  /\ now = 0
  /\ tz = 0

\* ------------------------------------------------- POST /create-order
\* the default price of a meeting
MEETING_PRICE == "150.00"

\* the price field of a request body: absent, or an amount
PriceInputs == {"none", "150.00", "200.00"}

\* meetingPrice: the caller's price if there is one, else the default
MeetingPrice(price) == IF price # "none" THEN price ELSE MEETING_PRICE

\* an order request that charges what the route passes as meetingPrice
C27_MutantAmount(meetingPrice) == meetingPrice

\* the amount createOrderRequestBody puts into the order request
OrderRequestAmount(meetingPrice) == MEETING_PRICE

\* slotsToCheck of the request: the caller's slots array if it is a
\* non-empty array, else [time]
SlotsToCheck(time, slots) == IF slots # {} THEN slots ELSE {time}

\* The live-reservation filter of the pre-check for one slot
SlotTaken(d, s, cutoff) ==
  \E x \in Rows :
    /\ x.date = d
    /\ x.time = s
    /\ \/ x.status = "confirmed"
       \/ /\ x.status = "pending"
          /\ x.paymentStatus = "pending"
          /\ x.createdAt > cutoff

\* one iteration of the loop over slotsToCheck, for a request with locals L
CheckSlot(p, L) ==
  LET s == Min(L.toCheck) IN
    IF SlotTaken(L.date, s, L.cutoff)
    THEN /\ pc' = [pc EXCEPT ![p] = "idle"]
         /\ loc' = [loc EXCEPT ![p] = IdleLoc]
         /\ last' = [NoResponse EXCEPT !.op = L.op, !.date = L.date,
                                       !.slots = L.slots,
                                       !.res = "409 SLOT_UNAVAILABLE",
                                       !.conflictingSlot = s]
    ELSE /\ loc' = [loc EXCEPT ![p] = [L EXCEPT !.toCheck = @ \ {s}]]
         /\ Goto(p, IF L.toCheck = {s} THEN "co_user" ELSE "co_check")

\* the request passes validation, fifteenMinutesAgo is taken and the first
\* slot is looked up
CreateOrderBegin(p, cap, u, d, t, slots, price) ==
  /\ pc[p] = "idle"
  /\ nextId + InFlightCreates <= cap
  /\ LET L == [IdleLoc EXCEPT !.op = "create-order", !.user = u, !.date = d,
                              !.time = t, !.slots = SlotsToCheck(t, slots),
                              !.toCheck = SlotsToCheck(t, slots),
                              !.cutoff = now - HOLD_TTL,
                              !.price = MeetingPrice(price)] IN
       IF CreateOrderPastDate(d)
       THEN Finish(p, L, "400 PAST_DATE")
       ELSE CheckSlot(p, L)
  /\ UNCHANGED <<appointments, nextId, orders, orderAmount, now, meetCalls, tz, completions>>

CreateOrderCheckSlot(p) ==
  /\ pc[p] = "co_check"
  /\ CheckSlot(p, loc[p])
  /\ UNCHANGED <<appointments, nextId, orders, orderAmount, now, meetCalls, tz, completions>>

UserHasConfirmed(u, d) ==
  \E x \in Rows : x.userId = u /\ x.date = d /\ x.status = "confirmed"

CreateOrderCheckUser(p) ==
  /\ pc[p] = "co_user"
  /\ IF UserHasConfirmed(loc[p].user, loc[p].date)
     THEN Finish(p, loc[p], "409 DUPLICATE_DATE_BOOKING")
     ELSE /\ Goto(p, "co_insert")
          /\ loc' = [loc EXCEPT ![p].cutoff = 0]
  /\ UNCHANGED <<appointments, nextId, orders, orderAmount, now, meetCalls, tz, completions>>

PendingInfo(o, amount) ==
  [ paypalOrderId |-> o, paypalTransactionId |-> 0, status |-> "pending",
    amount |-> amount ]

\* a catch block without the duplicate-key branch: the generic answer
C3_MutantResponse == "500 PAYPAL_ORDER_ERROR"

\* the catch block's answer to the store's duplicate-key error (code 11000)
DuplicateKeyResponse == "409 SLOT_UNAVAILABLE"

\* the first appointment.save(): inserts the pending hold
CreateOrderInsert(p) ==
  /\ pc[p] = "co_insert"
  /\ LET r == [NewAppointment(nextId, loc[p].user, loc[p].date, loc[p].time, "pending")
                 EXCEPT !.paymentStatus = "pending",
                        !.paymentInfo = PendingInfo(0, loc[p].price),
                        !.bookedSlots = loc[p].slots] IN
       IF DuplicateKey(r)
       THEN Finish(p, loc[p], DuplicateKeyResponse) /\ UNCHANGED <<appointments, nextId>>
       ELSE /\ appointments' = Put(r)
            /\ nextId' = nextId + 1
            /\ loc' = [loc EXCEPT ![p].id = r.id]
            /\ Goto(p, "co_paypal")
  /\ UNCHANGED <<orders, orderAmount, now, meetCalls, tz, completions>>

\* ordersController.createOrder: an order handle, or the call throws
CreateOrderPaypal(p) ==
  /\ pc[p] = "co_paypal"
  /\ \/ /\ orders' = [orders EXCEPT ![loc[p].id] = "created"]
        /\ orderAmount' = [orderAmount EXCEPT
                             ![loc[p].id] = OrderRequestAmount(loc[p].price)]
        /\ loc' = [loc EXCEPT ![p].orderId = loc[p].id]
        /\ Goto(p, "co_save")
     \/ /\ Finish(p, loc[p], "500 PAYPAL_ORDER_ERROR")
        /\ UNCHANGED <<orders, orderAmount>>
  /\ UNCHANGED <<appointments, nextId, now, meetCalls, tz, completions>>

\* the second appointment.save() stores the order id; then the approval URL
\* is looked up in the provider's answer
CreateOrderSave(p) ==
  /\ pc[p] = "co_save"
  /\ LET patch == [NoPatch EXCEPT
                      !.paymentInfo = PendingInfo(loc[p].orderId, loc[p].price)] IN
       IF SaveFails(loc[p].id, patch)
       THEN Finish(p, loc[p], "500 PAYPAL_ORDER_ERROR") /\ UNCHANGED appointments
       ELSE /\ appointments' = Put(Saved(appointments[loc[p].id], patch))
            /\ \/ Finish(p, loc[p], "500 PAYPAL_APPROVAL_URL_ERROR")
               \/ /\ pc' = [pc EXCEPT ![p] = "idle"]
                  /\ loc' = [loc EXCEPT ![p] = IdleLoc]
                  /\ last' = [NoResponse EXCEPT !.op = loc[p].op, !.id = loc[p].id,
                                                !.date = loc[p].date,
                                                !.slots = loc[p].slots,
                                                !.res = "201",
                                                !.amount = MEETING_PRICE]
  /\ UNCHANGED <<nextId, orders, orderAmount, now, meetCalls, tz, completions>>

\* --------------------------------------------------------- POST /book
BookSlotTaken(d, t) ==
  \E x \in Rows : x.date = d /\ x.time = t /\ x.status \in {"confirmed", "pending"}

BookUserHasAppointment(u, d) ==
  \E x \in Rows : x.userId = u /\ x.date = d /\ x.status \in {"confirmed", "pending"}

BookBegin(p, cap, u, d, t) ==
  /\ pc[p] = "idle"
  /\ nextId + InFlightCreates <= cap
  /\ LET L == [IdleLoc EXCEPT !.op = "book", !.user = u, !.date = d, !.time = t,
                              !.slots = {t}] IN
       IF BookPastDate(d)
       THEN Finish(p, L, "400 PAST_DATE")
       ELSE IF BookSlotTaken(d, t)
       THEN Finish(p, L, "409 SLOT_UNAVAILABLE")
       ELSE Goto(p, "bk_user") /\ loc' = [loc EXCEPT ![p] = L]
  /\ UNCHANGED <<appointments, nextId, orders, orderAmount, now, meetCalls, tz, completions>>

BookCheckUser(p) ==
  /\ pc[p] = "bk_user"
  /\ IF BookUserHasAppointment(loc[p].user, loc[p].date)
     THEN Finish(p, loc[p], "409 DUPLICATE_DATE_BOOKING")
     ELSE Goto(p, "bk_insert") /\ UNCHANGED loc
  /\ UNCHANGED <<appointments, nextId, orders, orderAmount, now, meetCalls, tz, completions>>

BookInsert(p) ==
  /\ pc[p] = "bk_insert"
  /\ LET r == NewAppointment(nextId, loc[p].user, loc[p].date, loc[p].time, "confirmed") IN
       IF DuplicateKey(r)
       THEN Finish(p, loc[p], "409 SLOT_UNAVAILABLE") /\ UNCHANGED <<appointments, nextId>>
       ELSE /\ appointments' = Put(r)
            /\ nextId' = nextId + 1
            /\ Finish(p, [loc[p] EXCEPT !.id = r.id], "201")
  /\ UNCHANGED <<orders, orderAmount, now, meetCalls, tz, completions>>

\* ------------------------------------------------------ GET /available
\* the times of the documents Appointment.find returns for day d
BookedTimes(d) ==
  { x.time : x \in { y \in Rows : /\ StoredDate(y) = ParseUTC(d)
                                    /\ y.status \in {"confirmed", "pending"} } }

\* the answer lists every slot of the grid, available unless its time is booked
Available(d) ==
  /\ IF AvailablePastDate(d)
     THEN last' = [NoResponse EXCEPT !.op = "available", !.date = d,
                                    !.res = "400 PAST_DATE"]
     ELSE last' = [NoResponse EXCEPT !.op = "available", !.date = d, !.res = "200",
                                    !.unavailable = Slots \cap BookedTimes(d)]
  /\ UNCHANGED <<appointments, nextId, orders, orderAmount, now, meetCalls, tz, pc, loc, completions>>

\* ------------------------------------------------ POST /capture-order
\* a lookup that does not filter on the caller
C16_MutantFound(u, a, o) ==
  Exists(a) /\ appointments[a].paymentInfo.paypalOrderId = o

\* Appointment.findOne({_id, userId, 'paymentInfo.paypalOrderId'})
CaptureFound(u, a, o) ==
  /\ Exists(a)
  /\ appointments[a].userId = u
  /\ appointments[a].paymentInfo.paypalOrderId = o

\* a success response carries the re-read document; a null re-read is
\* dereferenced and throws
Respond(p, L, r, onNull) ==
  IF Exists(L.id)
  THEN /\ pc' = [pc EXCEPT ![p] = "idle"]
       /\ loc' = [loc EXCEPT ![p] = IdleLoc]
       /\ last' = [NoResponse EXCEPT !.op = L.op, !.id = L.id, !.res = r,
                                     !.status = appointments[L.id].status,
                                     !.paymentStatus = appointments[L.id].paymentStatus]
  ELSE onNull

\* the lookup of the appointment and the already-completed check
CaptureBegin(p, u, a, o) ==
  /\ pc[p] = "idle"
  /\ LET L == [IdleLoc EXCEPT !.op = "capture-order", !.user = u, !.id = a,
                              !.orderId = o] IN
       IF ~CaptureFound(u, a, o)
       THEN Finish(p, L, "404 APPOINTMENT_NOT_FOUND")
       ELSE IF appointments[a].paymentStatus = "completed"
       THEN Goto(p, "cap_short") /\ loc' = [loc EXCEPT ![p] = L]
       ELSE /\ Goto(p, "cap_capture")
            /\ loc' = [loc EXCEPT ![p] = [L EXCEPT !.doc = appointments[a]]]
  /\ UNCHANGED <<appointments, nextId, orders, orderAmount, now, meetCalls, tz, completions>>

\* a short-circuit that saves the document again before it answers
C21_MutantShortCircuit(p) ==
  /\ pc[p] = "cap_short"
  /\ completions' = [completions EXCEPT ![loc[p].id] = IF @ >= 2 THEN 2 ELSE @ + 1]
  /\ Respond(p, loc[p], "200 already completed",
             Finish(p, loc[p], "500 CAPTURE_ERROR"))
  /\ UNCHANGED <<appointments, nextId, orders, orderAmount, now, meetCalls, tz>>

\* the already-completed short-circuit
CaptureShortCircuit(p) ==
  /\ pc[p] = "cap_short"
  /\ Respond(p, loc[p], "200 already completed",
             Finish(p, loc[p], "500 CAPTURE_ERROR"))
  /\ UNCHANGED <<appointments, nextId, orders, orderAmount, now, meetCalls, tz, completions>>

\* updateAppointmentFromOrder up to its first await: the in-memory document
\* doc is marked confirmed / completed with the capture metadata
ConfirmPatch(doc, o) ==
  [ NoPatch EXCEPT
      !.status = IF doc.status # "confirmed" THEN "confirmed" ELSE "none",
      !.paymentStatus = "completed",
      !.paymentInfo = [ paypalOrderId |-> o, paypalTransactionId |-> o,
                        status |-> "completed", amount |-> MEETING_PRICE ] ]

\* the capture answered with another status: paymentStatus and
\* paymentInfo.status are set to failed
FailPatch(doc) ==
  [ NoPatch EXCEPT
      !.paymentStatus = IF doc.paymentStatus # "failed" THEN "failed" ELSE "none",
      !.paymentInfo = IF doc.paymentInfo.status # "failed"
                      THEN [doc.paymentInfo EXCEPT !.status = "failed"]
                      ELSE NoInfo ]

\* the Meet link is generated only if the document has none
AfterUpdate(doc) == IF doc.googleMeetLink = 0 THEN "cap_meet" ELSE "cap_save"

\* a capture that is attempted again when the call throws
C22_MutantCall(p) ==
  /\ pc[p] = "cap_capture"
  /\ IF orders[loc[p].orderId] = "completed"
     THEN /\ Goto(p, "cap_fetch")
          /\ loc' = [loc EXCEPT ![p].captureCalls = @ + 1]
          /\ UNCHANGED orders
     ELSE \/ /\ orders' = [orders EXCEPT ![loc[p].orderId] = "completed"]
             /\ loc' = [loc EXCEPT ![p].patch = ConfirmPatch(loc[p].doc, loc[p].orderId),
                                    ![p].doc = NullDoc,
                                    ![p].captureCalls = @ + 1]
             /\ Goto(p, AfterUpdate(loc[p].doc))
          \/ /\ loc' = [loc EXCEPT ![p].patch = FailPatch(loc[p].doc),
                                    ![p].doc = NullDoc,
                                    ![p].orderStatus = "OTHER",
                                    ![p].captureCalls = @ + 1]
             /\ Goto(p, "cap_failsave")
             /\ UNCHANGED orders
          \/ /\ \E st \in {orders[loc[p].orderId], "completed"} :
                  orders' = [orders EXCEPT ![loc[p].orderId] = st]
             /\ IF loc[p].captureCalls = 0
                THEN /\ loc' = [loc EXCEPT ![p].captureCalls = @ + 1]
                     /\ UNCHANGED <<pc, last>>
                ELSE Finish(p, loc[p], "500 CAPTURE_ERROR")
  /\ UNCHANGED <<appointments, nextId, orderAmount, now, meetCalls, tz, completions>>

\* ordersController.captureOrder; captureCalls counts the calls of the request
CaptureCall(p) ==
  /\ pc[p] = "cap_capture"
  /\ IF orders[loc[p].orderId] = "completed"
     THEN \* 422 ORDER_ALREADY_CAPTURED
          /\ Goto(p, "cap_fetch")
          /\ loc' = [loc EXCEPT ![p].captureCalls = @ + 1]
          /\ UNCHANGED orders
     ELSE \/ \* COMPLETED
             /\ orders' = [orders EXCEPT ![loc[p].orderId] = "completed"]
             /\ loc' = [loc EXCEPT ![p].patch = ConfirmPatch(loc[p].doc, loc[p].orderId),
                                    ![p].doc = NullDoc,
                                    ![p].captureCalls = @ + 1]
             /\ Goto(p, AfterUpdate(loc[p].doc))
          \/ \* another status
             /\ loc' = [loc EXCEPT ![p].patch = FailPatch(loc[p].doc),
                                    ![p].doc = NullDoc,
                                    ![p].orderStatus = "OTHER",
                                    ![p].captureCalls = @ + 1]
             /\ Goto(p, "cap_failsave")
             /\ UNCHANGED orders
          \/ \* the call throws something else, the order captured or not
             /\ \E st \in {orders[loc[p].orderId], "completed"} :
                  orders' = [orders EXCEPT ![loc[p].orderId] = st]
             /\ Finish(p, loc[p], "500 CAPTURE_ERROR")
  /\ UNCHANGED <<appointments, nextId, orderAmount, now, meetCalls, tz, completions>>

Bump(n) == IF n >= 2 THEN 2 ELSE n + 1

\* a provisioner whose failure is not swallowed: it ends the request in the
\* general error handler
C11_MutantMeet(p) ==
  /\ pc[p] = "cap_meet"
  /\ meetCalls' = [meetCalls EXCEPT ![loc[p].id] = Bump(@)]
  /\ \/ /\ loc' = [loc EXCEPT ![p].patch.googleMeetLink = 1,
                               ![p].patch.googleCalendarEventId = 1]
        /\ Goto(p, "cap_save")
     \/ Finish(p, loc[p], "500 CAPTURE_ERROR")
  /\ UNCHANGED <<appointments, nextId, orders, orderAmount, now, tz, completions>>

\* createGoogleMeetEvent, its failure swallowed; the link and the id of the
\* created event (1, or 0 for none) are staged together
CaptureMeet(p) ==
  /\ pc[p] = "cap_meet"
  /\ \E link \in {0, 1} : loc' = [loc EXCEPT ![p].patch.googleMeetLink = link,
                                              ![p].patch.googleCalendarEventId = link,
                                              ![p].meetFailed = (link = 0)]
  /\ meetCalls' = [meetCalls EXCEPT ![loc[p].id] = Bump(@)]
  /\ Goto(p, "cap_save")
  /\ UNCHANGED <<appointments, nextId, orders, orderAmount, now, tz, completions>>

\* where a throw inside the capture attempt ends: the general error
\* handler, or on the already-captured path the fallback check
OnThrow(p) ==
  IF loc[p].replay
  THEN Goto(p, "cap_fallback") /\ loc' = [loc EXCEPT ![p].patch = NoPatch]
  ELSE Finish(p, loc[p], "500 CAPTURE_ERROR")

\* appointmentToUpdate.save() at the end of updateAppointmentFromOrder
CaptureSave(p) ==
  /\ pc[p] = "cap_save"
  /\ IF SaveFails(loc[p].id, loc[p].patch)
     THEN OnThrow(p) /\ UNCHANGED <<appointments, completions>>
     ELSE /\ appointments' = Put(Saved(appointments[loc[p].id], loc[p].patch))
          /\ completions' = [completions EXCEPT ![loc[p].id] = Bump(@)]
          /\ loc' = [loc EXCEPT ![p].patch = NoPatch]
          /\ Goto(p, "cap_reread")
  /\ UNCHANGED <<nextId, orders, orderAmount, now, meetCalls, tz>>

\* the refresh before the success response
CaptureReread(p) ==
  /\ pc[p] = "cap_reread"
  /\ Respond(p, loc[p], "200 completed", OnThrow(p))
  /\ UNCHANGED <<appointments, nextId, orders, orderAmount, now, meetCalls, tz, completions>>

\* the capture answered with a status other than COMPLETED
CaptureFailSave(p) ==
  /\ pc[p] = "cap_failsave"
  /\ IF SaveFails(loc[p].id, loc[p].patch)
     THEN Finish(p, loc[p], "500 CAPTURE_ERROR") /\ UNCHANGED appointments
     ELSE /\ appointments' = Put(Saved(appointments[loc[p].id], loc[p].patch))
          /\ Finish(p, loc[p], "400 PAYMENT_NOT_COMPLETED")
  /\ UNCHANGED <<nextId, orders, orderAmount, now, meetCalls, tz, completions>>

\* ORDER_ALREADY_CAPTURED: ordersController.getOrder
CaptureFetchOrder(p) ==
  /\ pc[p] = "cap_fetch"
  /\ \/ \E st \in {"COMPLETED", "OTHER"} :
          /\ loc' = [loc EXCEPT ![p].orderStatus = st, ![p].replay = TRUE]
          /\ Goto(p, "cap_refetch")
     \/ /\ loc' = [loc EXCEPT ![p].replay = TRUE, ![p].doc = NullDoc]
        /\ Goto(p, "cap_fallback")
  /\ UNCHANGED <<appointments, nextId, orders, orderAmount, now, meetCalls, tz, completions>>

\* the re-read of the appointment and the replay of the update
CaptureRefetch(p) ==
  /\ pc[p] = "cap_refetch"
  /\ LET d == IF Exists(loc[p].id) THEN appointments[loc[p].id] ELSE loc[p].doc
     IN IF d.paymentStatus = "completed"
        THEN /\ loc' = [loc EXCEPT ![p].doc = NullDoc]
             /\ Goto(p, "cap_resp")
        ELSE IF loc[p].orderStatus = "COMPLETED"
        THEN /\ loc' = [loc EXCEPT ![p].patch = ConfirmPatch(d, loc[p].orderId),
                                   ![p].doc = NullDoc]
             /\ Goto(p, AfterUpdate(d))
        ELSE Finish(p, loc[p], "400 PAYMENT_NOT_COMPLETED")
  /\ UNCHANGED <<appointments, nextId, orders, orderAmount, now, meetCalls, tz, completions>>

\* the refresh for the "already completed" response of the replay path
CaptureRespRead(p) ==
  /\ pc[p] = "cap_resp"
  /\ Respond(p, loc[p], "200 already completed", OnThrow(p))
  /\ UNCHANGED <<appointments, nextId, orders, orderAmount, now, meetCalls, tz, completions>>

\* the fallback check once something on the already-captured path threw
CaptureFallback(p) ==
  /\ pc[p] = "cap_fallback"
  /\ IF Exists(loc[p].id) /\ appointments[loc[p].id].paymentStatus = "completed"
     THEN Respond(p, loc[p], "200 already completed", FALSE)
     ELSE Finish(p, loc[p], "422 CAPTURE_ERROR")
  /\ UNCHANGED <<appointments, nextId, orders, orderAmount, now, meetCalls, tz, completions>>

\* ------------- PUT /:appointmentId/cancel and DELETE /:appointmentId
\* one hour, the buffer of canBeCancelled
CANCEL_WINDOW == 60

\* minutes after midnight at which slot t of the 09:00-17:30 grid starts
SlotMinutes(t) == 540 + (t - 1) * 30

\* the instant at which the appointment of document x starts
AppointmentStart(x) == x.date * DAY + SlotMinutes(x.time) - tz

\* appointment.canBeCancelled() at time t
CanBeCancelled(x, t) == t < AppointmentStart(x) - CANCEL_WINDOW

\* hoursUntilAppointment: the UTC day of the stored date with the time,
\* read on the server's clock, minus now, in whole hours rounded down
HoursUntil(x, t) ==
  (((StoredDate(x) \div DAY) * DAY + SlotMinutes(x.time) - tz) - t) \div 60

UserCancelOps == {"cancel", "delete"}

\* a lookup by _id alone
C29_MutantFound(u, a) == Exists(a)

\* Appointment.findOne({_id, userId})
UserCancelFound(u, a) == Exists(a) /\ appointments[a].userId = u

\* the lookup of the caller's appointment and the cancellation check
UserCancelBegin(p, m, u, a) ==
  /\ pc[p] = "idle"
  /\ LET L == [IdleLoc EXCEPT !.op = m, !.user = u, !.id = a] IN
       IF ~UserCancelFound(u, a)
       THEN Finish(p, L, "404 APPOINTMENT_NOT_FOUND")
       ELSE IF ~CanBeCancelled(appointments[a], now)
       THEN /\ pc' = [pc EXCEPT ![p] = "idle"]
            /\ loc' = [loc EXCEPT ![p] = IdleLoc]
            /\ last' = [NoResponse EXCEPT !.op = m, !.id = a,
                                          !.res = "400 CANCELLATION_TOO_LATE",
                                          !.hours = HoursUntil(appointments[a], now)]
       ELSE /\ Goto(p, IF m = "cancel" THEN "uc_pre" ELSE "uc_del1")
            /\ loc' = [loc EXCEPT ![p] = [L EXCEPT !.doc = appointments[a]]]
  /\ UNCHANGED <<appointments, nextId, orders, orderAmount, now, meetCalls, tz, completions>>

\* PUT only: the check that the appointment is still stored
UserCancelPreCheck(p) ==
  /\ pc[p] = "uc_pre"
  /\ IF Exists(loc[p].id)
     THEN Goto(p, "uc_del1") /\ UNCHANGED loc
     ELSE Finish(p, loc[p], "404 APPOINTMENT_NOT_FOUND")
  /\ UNCHANGED <<appointments, nextId, orders, orderAmount, now, meetCalls, tz, completions>>

\* method 1: deleteOne({_id, userId})
UserCancelDeleteOne(p) ==
  /\ pc[p] = "uc_del1"
  /\ IF Exists(loc[p].id) /\ appointments[loc[p].id].userId = loc[p].user
     THEN appointments' = Remove({loc[p].id}) /\ Goto(p, "uc_verify")
     ELSE UNCHANGED appointments /\ Goto(p, "uc_del2")
  /\ UNCHANGED <<nextId, orders, orderAmount, now, meetCalls, tz, loc, completions>>

\* method 2, after method 1 deleted nothing: findByIdAndDelete(appointmentId)
UserCancelFindByIdAndDelete(p) ==
  /\ pc[p] = "uc_del2"
  /\ IF Exists(loc[p].id)
     THEN appointments' = Remove({loc[p].id}) /\ Goto(p, "uc_verify")
     ELSE UNCHANGED appointments /\ Goto(p, "uc_del3")
  /\ UNCHANGED <<nextId, orders, orderAmount, now, meetCalls, tz, loc, completions>>

\* method 3, after method 2 found nothing: findOneAndDelete({_id, userId})
UserCancelFindOneAndDelete(p) ==
  /\ pc[p] = "uc_del3"
  /\ IF Exists(loc[p].id) /\ appointments[loc[p].id].userId = loc[p].user
     THEN /\ appointments' = Remove({loc[p].id})
          /\ Goto(p, "uc_verify")
          /\ UNCHANGED loc
     ELSE /\ Finish(p, loc[p], "500 DELETE_FAILED")
          /\ UNCHANGED appointments
  /\ UNCHANGED <<nextId, orders, orderAmount, now, meetCalls, tz, completions>>

\* the verification that the appointment is gone, and the answer
UserCancelVerify(p) ==
  /\ pc[p] = "uc_verify"
  /\ IF Exists(loc[p].id)
     THEN Finish(p, loc[p], "500 DELETION_VERIFICATION_FAILED")
     ELSE Finish(p, loc[p], "200")
  /\ UNCHANGED <<appointments, nextId, orders, orderAmount, now, meetCalls, tz, completions>>

\* ------------------------------------------------- POST /cancel-order
\* a filter that does not look at the payment status
C14_MutantFound(u, a) ==
  Exists(a) /\ appointments[a].userId = u /\ appointments[a].status = "pending"

\* the filter of findOneAndDelete
CancelOrderFound(u, a) ==
  /\ Exists(a)
  /\ appointments[a].userId = u
  /\ appointments[a].status = "pending"
  /\ appointments[a].paymentStatus = "pending"

CancelOrder(u, a) ==
  /\ IF CancelOrderFound(u, a)
     THEN /\ appointments' = Remove({a})
          /\ last' = [NoResponse EXCEPT !.op = "cancel-order", !.id = a, !.res = "200"]
     ELSE /\ last' = [NoResponse EXCEPT !.op = "cancel-order", !.id = a,
                                        !.res = "404 APPOINTMENT_NOT_FOUND"]
          /\ UNCHANGED appointments
  /\ UNCHANGED <<nextId, orders, orderAmount, now, meetCalls, tz, pc, loc, completions>>

\* ---------------------------------------------- POST /cleanup-pending
\* a filter that does not look at the payment status
C13_MutantExpired(x, t) == x.status = "pending" /\ x.createdAt < t - HOLD_TTL

\* a filter that matches only the holds that have a provider order
C30_MutantExpired(x, t) ==
  /\ x.status = "pending"
  /\ x.paymentStatus = "pending"
  /\ x.createdAt < t - HOLD_TTL
  /\ x.paymentInfo.paypalOrderId # 0

\* the filter of deleteMany, fifteenMinutesAgo taken at time t
Expired(x, t) ==
  /\ x.status = "pending"
  /\ x.paymentStatus = "pending"
  /\ x.createdAt < t - HOLD_TTL

CleanupPending ==
  LET gone == { i \in DOMAIN appointments : Expired(appointments[i], now) } IN
    /\ appointments' = Remove(gone)
    /\ last' = [NoResponse EXCEPT !.op = "cleanup-pending", !.res = "200",
                                  !.deletedCount = Cardinality(gone)]
    /\ UNCHANGED <<nextId, orders, orderAmount, now, meetCalls, tz, pc, loc, completions>>

\* ---------------------------- POST /:appointmentId/request-meet-link
\* Calendar events are numbered in the order createGoogleMeetEvent is
\* invoked for the reservation.  A link is a number: 2e - 1 is the link event
\* e is created with, 2e the link of a conference patched onto event e.
CreatedLink(e) == 2 * e - 1

\* events.patch answers with a conference other than the current one
PatchedLink(e, cur) == IF cur = 2 * e THEN 2 * e - 1 ELSE 2 * e

\* the calendar event a link belongs to (0 for no link)
EventOfLink(l) == (l + 1) \div 2

\* the error messages the catch blocks tell apart
MeetErrors == {"conference type", "attendees", "other"}

\* the lookup of the caller's appointment and the confirmed-and-paid check;
\* generateNewMeetLink then creates an event if the document names none and
\* patches the named event otherwise
MeetLinkBegin(p, u, a) ==
  /\ pc[p] = "idle"
  /\ LET L == [IdleLoc EXCEPT !.op = "request-meet-link", !.user = u, !.id = a] IN
       IF ~(Exists(a) /\ appointments[a].userId = u)
       THEN Finish(p, L, "404 APPOINTMENT_NOT_FOUND")
       ELSE IF appointments[a].status # "confirmed"
               \/ appointments[a].paymentStatus # "completed"
       THEN Finish(p, L, "400 APPOINTMENT_NOT_CONFIRMED")
       ELSE /\ loc' = [loc EXCEPT ![p] = [L EXCEPT !.doc = appointments[a],
                                                   !.stage = "new"]]
            /\ Goto(p, IF appointments[a].googleCalendarEventId = 0
                       THEN "ml_create" ELSE "ml_patch")
  /\ UNCHANGED <<appointments, nextId, orders, orderAmount, now, meetCalls, tz, completions>>

\* where an error with message e thrown by createGoogleMeetEvent ends: in
\* the fallback of generateNewMeetLink, in the fallback of the route, or in
\* the answer 500
AfterCreateError(p, e) ==
  IF loc[p].stage \in {"new", "catch"} /\ e = "conference type"
  THEN Goto(p, "ml_create") /\ loc' = [loc EXCEPT ![p].stage = "fallback"]
  ELSE IF loc[p].stage # "route" /\ e = "attendees"
  THEN Goto(p, "ml_create") /\ loc' = [loc EXCEPT ![p].stage = "route"]
  ELSE Finish(p, loc[p], "500 MEET_LINK_GENERATION_ERROR")

\* calendar.events.patch of the event the document names
MeetLinkPatch(p) ==
  /\ pc[p] = "ml_patch"
  /\ \/ /\ loc' = [loc EXCEPT ![p].link =
                        PatchedLink(loc[p].doc.googleCalendarEventId,
                                    loc[p].doc.googleMeetLink)]
        /\ Goto(p, "ml_refetch")
     \/ \* no link in the answer, or an error of another kind
        Finish(p, loc[p], "500 MEET_LINK_GENERATION_ERROR")
     \/ \E e \in {"conference type", "attendees"} :
          /\ loc' = [loc EXCEPT ![p].stage = "catch"]
          /\ Goto(p, "ml_create")
  /\ UNCHANGED <<appointments, nextId, orders, orderAmount, now, meetCalls, tz, completions>>

\* createGoogleMeetEvent, called by generateNewMeetLink (stages new, catch,
\* fallback) or by the fallback of the route: generateNewMeetLink stages the
\* id of the new event and returns the link, the route stages both
MeetLinkCreate(p) ==
  /\ pc[p] = "ml_create"
  /\ meetCalls[loc[p].id] < MaxEvents
  /\ meetCalls' = [meetCalls EXCEPT ![loc[p].id] = @ + 1]
  /\ \/ LET e == meetCalls[loc[p].id] + 1 IN
          IF loc[p].stage = "route"
          THEN /\ loc' = [loc EXCEPT ![p].patch.googleMeetLink = CreatedLink(e),
                                     ![p].patch.googleCalendarEventId = e]
               /\ Goto(p, "ml_save")
          ELSE /\ loc' = [loc EXCEPT ![p].patch.googleCalendarEventId = e,
                                     ![p].link = CreatedLink(e)]
               /\ Goto(p, "ml_saveid")
     \/ \E e \in MeetErrors : AfterCreateError(p, e)
  /\ UNCHANGED <<appointments, nextId, orders, orderAmount, now, tz, completions>>

\* appointment.save() inside generateNewMeetLink: the event id is written
MeetLinkSaveEventId(p) ==
  /\ pc[p] = "ml_saveid"
  /\ IF SaveFails(loc[p].id, loc[p].patch)
     THEN Finish(p, loc[p], "500 MEET_LINK_GENERATION_ERROR") /\ UNCHANGED appointments
     ELSE /\ appointments' = Put(Saved(appointments[loc[p].id], loc[p].patch))
          /\ loc' = [loc EXCEPT ![p].patch = NoPatch]
          /\ Goto(p, "ml_refetch")
  /\ UNCHANGED <<nextId, orders, orderAmount, now, meetCalls, tz, completions>>

\* the route re-reads the appointment and sets the link on the document it
\* got (on the one it loaded at first, if the re-read found none)
MeetLinkRefetch(p) ==
  /\ pc[p] = "ml_refetch"
  /\ loc' = [loc EXCEPT ![p].patch.googleMeetLink = loc[p].link]
  /\ Goto(p, "ml_save")
  /\ UNCHANGED <<appointments, nextId, orders, orderAmount, now, meetCalls, tz, completions>>

\* the save of the route (of its fallback: link and event id), and the answer
MeetLinkSave(p) ==
  /\ pc[p] = "ml_save"
  /\ IF SaveFails(loc[p].id, loc[p].patch)
     THEN Finish(p, loc[p], "500 MEET_LINK_GENERATION_ERROR") /\ UNCHANGED appointments
     ELSE /\ appointments' = Put(Saved(appointments[loc[p].id], loc[p].patch))
          /\ Finish(p, loc[p], "200")
  /\ UNCHANGED <<nextId, orders, orderAmount, now, meetCalls, tz, completions>>

\* ------------------------------------------------------- environment
Tick ==
  /\ now + ClockStep <= MaxTime
  /\ now' = now + ClockStep
  /\ UNCHANGED <<appointments, nextId, orders, orderAmount, pc, loc, last, completions,
                 meetCalls, tz>>

\* ------------------------------------------------------ specifications
\* the slots arrays of the modelled requests: none, or all modelled slots
SlotArrays == {{}, Slots}

CreateOrder(p, cap) ==
  \/ \E u \in Users, d \in Dates, t \in Slots, s \in SlotArrays :
       CreateOrderBegin(p, cap, u, d, t, s, "none")
  \/ CreateOrderCheckSlot(p)
  \/ CreateOrderCheckUser(p)
  \/ CreateOrderInsert(p)
  \/ CreateOrderPaypal(p)
  \/ CreateOrderSave(p)

Book(p, cap) ==
  \/ \E u \in Users, d \in Dates, t \in Slots : BookBegin(p, cap, u, d, t)
  \/ BookCheckUser(p)
  \/ BookInsert(p)

CaptureOrder(p) ==
  \/ \E u \in Users, a \in Ids, o \in Ids : CaptureBegin(p, u, a, o)
  \/ CaptureShortCircuit(p)
  \/ CaptureCall(p)
  \/ CaptureMeet(p)
  \/ CaptureSave(p)
  \/ CaptureReread(p)
  \/ CaptureFailSave(p)
  \/ CaptureFetchOrder(p)
  \/ CaptureRefetch(p)
  \/ CaptureRespRead(p)
  \/ CaptureFallback(p)

\* CaptureRespRead answers a completion by a concurrent request: it is no
\* step of a request that runs alone
CaptureOrderSequential(p) ==
  \/ \E u \in Users, a \in Ids, o \in Ids : CaptureBegin(p, u, a, o)
  \/ CaptureShortCircuit(p)
  \/ CaptureCall(p)
  \/ CaptureMeet(p)
  \/ CaptureSave(p)
  \/ CaptureReread(p)
  \/ CaptureFailSave(p)
  \/ CaptureFetchOrder(p)
  \/ CaptureRefetch(p)
  \/ CaptureFallback(p)

Environment ==
  \/ \E u \in Users, a \in Ids : CancelOrder(u, a)
  \/ CleanupPending
  \/ Tick

\* Requests arrive one at a time (each handler still interleaves with
\* cancel-order, cleanup-pending and the clock); up to MaxAppts documents.
Next ==
  \/ CreateOrder(1, MaxAppts)
  \/ Book(1, MaxAppts)
  \/ CaptureOrderSequential(1)
  \/ Environment

Spec == Init /\ [][Next]_vars

\* NumProcs requests in flight at once, around a single stored document.
NextConcurrent ==
  \/ \E p \in Procs : CreateOrder(p, 1)
  \/ \E p \in Procs : Book(p, 1)
  \/ \E p \in Procs : CaptureOrder(p)
  \/ Environment

SpecConcurrent == Init /\ [][NextConcurrent]_vars

\* NumProcs create-order requests racing, nothing else but the clock.
NextRace ==
  \/ \E p \in Procs : CreateOrder(p, MaxAppts)
  \/ Tick

SpecRace == Init /\ [][NextRace]_vars

\* NumProcs booking requests of either kind racing.
NextBookingRace ==
  \/ \E p \in Procs : CreateOrder(p, MaxAppts)
  \/ \E p \in Procs : Book(p, MaxAppts)
  \/ Tick

SpecBookingRace == Init /\ [][NextBookingRace]_vars

\* One request at a time asks for availability or opens a hold, while holds age.
NextAvailability ==
  \/ CreateOrder(1, MaxAppts)
  \/ Book(1, MaxAppts)
  \/ \E d \in Dates : Available(d)
  \/ Tick

SpecAvailability == Init /\ [][NextAvailability]_vars

\* the days requests name, the zones a server runs in (whole hours either
\* side of UTC) and clock readings around a midnight
Days == 0..MaxDay

Zones == { z * 60 : z \in -MaxZone..MaxZone }

PastDateClocks == { DAY + k * ClockStep : k \in -2..2 }

InitPastDate ==
  /\ InitStore
  /\ now \in PastDateClocks
  /\ tz \in Zones

CreateOrderAnyDay(p, cap) ==
  \/ \E u \in Users, d \in Days, t \in Slots, s \in SlotArrays :
       CreateOrderBegin(p, cap, u, d, t, s, "none")
  \/ CreateOrderCheckSlot(p)
  \/ CreateOrderCheckUser(p)
  \/ CreateOrderInsert(p)
  \/ CreateOrderPaypal(p)
  \/ CreateOrderSave(p)

\* Availability queries and create-order requests for any day, on servers of
\* any zone.
NextPastDate ==
  \/ \E d \in Days : Available(d)
  \/ CreateOrderAnyDay(1, MaxAppts)

SpecPastDate == InitPastDate /\ [][NextPastDate]_vars

\* clock readings around the cancellation cutoff of the appointments of day 1,
\* on the server's clock
CancelClocks ==
  { DAY + SlotMinutes(t) - CANCEL_WINDOW + k * ClockStep : t \in Slots, k \in -1..1 }

InitCancel ==
  /\ InitStore
  /\ tz \in Zones
  /\ now \in { c - tz : c \in CancelClocks }

UserCancel(p) ==
  \/ \E m \in UserCancelOps, u \in Users, a \in Ids : UserCancelBegin(p, m, u, a)
  \/ UserCancelPreCheck(p)
  \/ UserCancelDeleteOne(p)
  \/ UserCancelFindByIdAndDelete(p)
  \/ UserCancelFindOneAndDelete(p)
  \/ UserCancelVerify(p)

\* A reservation is paid for and cancelled around the cutoff, on servers of
\* any zone; every document is stored by create-order.
NextCancel ==
  \/ CreateOrder(1, 1)
  \/ CaptureOrderSequential(1)
  \/ UserCancel(1)
  \/ \E u \in Users, a \in Ids : CancelOrder(u, a)

SpecCancel == InitCancel /\ [][NextCancel]_vars

CreateOrderPriced(p, cap) ==
  \/ \E u \in Users, d \in Dates, t \in Slots, s \in SlotArrays, price \in PriceInputs :
       CreateOrderBegin(p, cap, u, d, t, s, price)
  \/ CreateOrderCheckSlot(p)
  \/ CreateOrderCheckUser(p)
  \/ CreateOrderInsert(p)
  \/ CreateOrderPaypal(p)
  \/ CreateOrderSave(p)

\* Reservations are opened at any price and paid for, one request at a time.
NextAmount ==
  \/ CreateOrderPriced(1, MaxAppts)
  \/ CaptureOrderSequential(1)

SpecAmount == Init /\ [][NextAmount]_vars

\* the entries a caller may put into its slots array: the modelled slots of
\* the grid and 0, the half hour before the grid begins
SlotInputs == 0..NumSlots

CreateOrderAnySlots(p, cap) ==
  \/ \E u \in Users, d \in Dates, t \in Slots, s \in SUBSET SlotInputs :
       CreateOrderBegin(p, cap, u, d, t, s, "none")
  \/ CreateOrderCheckSlot(p)
  \/ CreateOrderCheckUser(p)
  \/ CreateOrderInsert(p)
  \/ CreateOrderPaypal(p)
  \/ CreateOrderSave(p)

\* Holds are opened with any slots array, one request at a time.
NextSlots ==
  \/ CreateOrderAnySlots(1, MaxAppts)
  \/ Tick

SpecSlots == Init /\ [][NextSlots]_vars

\* A hold is opened, paid or left alone, one request at a time; the clock
\* goes on and cleanup-pending is called again and again.
NextSweep ==
  \/ CreateOrder(1, 1)
  \/ CaptureOrderSequential(1)
  \/ CleanupPending
  \/ Tick

SpecSweep ==
  /\ Init
  /\ [][NextSweep]_vars
  /\ WF_vars(Tick)
  /\ WF_vars(CleanupPending)

MeetLink(p) ==
  \/ \E u \in Users, a \in Ids : MeetLinkBegin(p, u, a)
  \/ MeetLinkPatch(p)
  \/ MeetLinkCreate(p)
  \/ MeetLinkSaveEventId(p)
  \/ MeetLinkRefetch(p)
  \/ MeetLinkSave(p)

\* A reservation is paid for and its meeting link regenerated, by up to
\* NumProcs requests at once.
NextMeetLink ==
  \/ CreateOrder(1, 1)
  \/ CaptureOrderSequential(1)
  \/ \E p \in Procs : MeetLink(p)

SpecMeetLink == Init /\ [][NextMeetLink]_vars

\* ------------------------------------------------------------ properties
\* the slots a reservation consumes: its start time and its bookedSlots
Occupied(x) == {x.time} \cup x.bookedSlots

\* live-reserved: confirmed, or pending / pending and younger than the TTL
Live(x) ==
  \/ x.status = "confirmed"
  \/ /\ x.status = "pending"
     /\ x.paymentStatus = "pending"
     /\ now - x.createdAt < HOLD_TTL

Settled(x) == x.status = "confirmed" /\ x.paymentStatus = "completed"

\* C1: no two confirmed reservations share a (date, slot).
C1_NoTwoConfirmedShareSlot ==
  \A x \in Rows, y \in Rows :
    (x.id # y.id /\ x.status = "confirmed" /\ y.status = "confirmed"
       /\ x.date = y.date)
      => Occupied(x) \cap Occupied(y) = {}

\* C2: for each (date, slot) at most one reservation is live-reserved.
C2_OneLivePerSlot ==
  \A x \in Rows, y \in Rows :
    (x.id # y.id /\ Live(x) /\ Live(y) /\ x.date = y.date)
      => Occupied(x) \cap Occupied(y) = {}

C4_CaptureIdempotent == \A i \in Ids : completions[i] <= 1

\* C5: a create-order or booking request is never turned away with
\* 409 SLOT_UNAVAILABLE on account of an expired hold: whenever one is,
\* a reservation that is not an expired hold occupies one of its slots.
C5_ExpiredHoldNeverBlocks ==
  [][(last' # last /\ last'.op \in {"create-order", "book"}
        /\ last'.res = "409 SLOT_UNAVAILABLE")
       => \E x \in Rows :
            /\ x.date = last'.date
            /\ Occupied(x) \cap last'.slots # {}
            /\ ~Expired(x, now)]_vars

\* C6: every slot in the bookedSlots of a live reservation is occupied:
\* create-order never stores a hold any of whose slots a live reservation
\* occupies.
C6_AllSlotsReserved ==
  [][\A i \in DOMAIN appointments' \ DOMAIN appointments :
       appointments'[i].status = "pending"
         => \A x \in Rows :
              (x.date = appointments'[i].date /\ Live(x))
                => Occupied(x) \cap Occupied(appointments'[i]) = {}]_vars

\* C7: a user has at most one confirmed reservation per date.
C7_OneConfirmedPerUserDate ==
  \A x \in Rows, y \in Rows :
    (x.status = "confirmed" /\ y.status = "confirmed"
       /\ x.userId = y.userId /\ x.date = y.date) => x.id = y.id

\* C8: a reservation is confirmed if and only if its payment is completed.
C8_ConfirmedIffCompleted ==
  \A x \in Rows : x.status = "confirmed" <=> x.paymentStatus = "completed"

\* C9: a reservation that is (confirmed, completed) stays so for as long as
\* the row exists.
C9_NoRegression ==
  [][\A i \in DOMAIN appointments \cap DOMAIN appointments' :
       Settled(appointments[i]) => Settled(appointments'[i])]_vars

\* C10: a capture-order request that was told "already captured" and fetched
\* the order as COMPLETED ends with a success response, the reservation
\* being (confirmed, completed) when it does.
C10_AlreadyCapturedIsSuccess ==
  [][\A p \in Procs :
       (loc[p].replay /\ loc[p].orderStatus = "COMPLETED"
          /\ pc[p] # "idle" /\ pc'[p] = "idle")
         => /\ last'.res \in {"200 completed", "200 already completed"}
            /\ loc[p].id \in DOMAIN appointments'
            /\ Settled(appointments'[loc[p].id])]_vars

C12_CancellationCutoff ==
  [][\A p \in Procs :
       /\ (last' # last /\ last'.op \in UserCancelOps
             /\ last'.res = "400 CANCELLATION_TOO_LATE"
             /\ last'.id \in DOMAIN appointments
             /\ appointments[last'.id].status = "confirmed")
            => /\ appointments' = appointments
               /\ now >= AppointmentStart(appointments[last'.id]) - CANCEL_WINDOW
               /\ last'.hours
                    = (AppointmentStart(appointments[last'.id]) - now) \div 60
       /\ (pc[p] = "uc_verify" /\ pc'[p] = "idle" /\ last'.res = "200"
             /\ loc[p].doc.status = "confirmed")
            => /\ loc[p].id \notin DOMAIN appointments'
               /\ now < AppointmentStart(loc[p].doc) - CANCEL_WINDOW]_vars

\* C13: cleanup-pending removes exactly the pending / pending reservations
\* created more than 15 minutes ago, answers with their number and leaves
\* every other reservation as it is.
C13_CleanupExact ==
  [][CleanupPending =>
       LET old == { i \in DOMAIN appointments :
                      /\ appointments[i].status = "pending"
                      /\ appointments[i].paymentStatus = "pending"
                      /\ appointments[i].createdAt < now - HOLD_TTL } IN
         /\ DOMAIN appointments' = DOMAIN appointments \ old
         /\ \A i \in DOMAIN appointments' : appointments'[i] = appointments[i]
         /\ last'.res = "200"
         /\ last'.deletedCount = Cardinality(old)]_vars

\* a sweep removed an expired hold and kept another reservation
C13_Witness ==
  /\ last.op = "cleanup-pending"
  /\ last.deletedCount >= 1
  /\ Rows # {}

\* C14: cancel-order deletes the named reservation, and nothing else, if the
\* caller owns it and it is (pending, pending); otherwise it answers 404 and
\* changes nothing.
C14_CancelOrderOnlyOwnPending ==
  [][\A u \in Users, a \in Ids :
       CancelOrder(u, a) =>
         IF /\ a \in DOMAIN appointments
            /\ appointments[a].userId = u
            /\ appointments[a].status = "pending"
            /\ appointments[a].paymentStatus = "pending"
         THEN /\ DOMAIN appointments' = DOMAIN appointments \ {a}
              /\ \A i \in DOMAIN appointments' : appointments'[i] = appointments[i]
              /\ last'.res = "200"
         ELSE /\ appointments' = appointments
              /\ last'.res = "404 APPOINTMENT_NOT_FOUND"]_vars

\* cancel-order answered 404 for a reservation that is stored
C14_Witness ==
  /\ last.op = "cancel-order"
  /\ last.res = "404 APPOINTMENT_NOT_FOUND"
  /\ last.id \in DOMAIN appointments

\* C15: the availability answer marks a slot unavailable if and only if a
\* live reservation of that date occupies it, and the query changes nothing.
C15_AvailabilityIsLiveness ==
  [][(last' # last /\ last'.op = "available" /\ last'.res = "200")
       => /\ appointments' = appointments
          /\ \A t \in Slots :
               t \in last'.unavailable
                 <=> \E x \in Rows :
                       x.date = last'.date /\ t \in Occupied(x) /\ Live(x)]_vars

\* C16: capture-order for a reservation the caller does not own, or with
\* another order id than the reservation's, answers 404
\* APPOINTMENT_NOT_FOUND, calls no provider and changes nothing; any other
\* capture-order goes on.
C16_CaptureLookup ==
  [][\A p \in Procs, u \in Users, a \in Ids, o \in Ids :
       CaptureBegin(p, u, a, o) =>
         IF /\ a \in DOMAIN appointments
            /\ appointments[a].userId = u
            /\ appointments[a].paymentInfo.paypalOrderId = o
         THEN pc'[p] \in {"cap_short", "cap_capture"}
         ELSE /\ pc'[p] = "idle"
              /\ last'.res = "404 APPOINTMENT_NOT_FOUND"
              /\ UNCHANGED <<appointments, orders, meetCalls, completions>>]_vars

\* capture-order answered 404 for a reservation that is stored with an order
C16_Witness ==
  /\ last.op = "capture-order"
  /\ last.res = "404 APPOINTMENT_NOT_FOUND"
  /\ last.id \in DOMAIN appointments
  /\ appointments[last.id].paymentInfo.paypalOrderId # 0

\* C17: whenever capture-order answers PAYMENT_NOT_COMPLETED the reservation
\* is stored as (pending, failed) and the answer carries the provider's
\* status.
C17_NotCompletedIsPersisted ==
  [][(last' # last /\ last'.op = "capture-order"
        /\ last'.res = "400 PAYMENT_NOT_COMPLETED")
       => /\ last'.orderStatus # "none"
          /\ last'.id \in DOMAIN appointments'
          /\ appointments'[last'.id].status = "pending"
          /\ appointments'[last'.id].paymentStatus = "failed"]_vars

\* C18: the availability query and create-order answer PAST_DATE for exactly
\* the days before today on the server's clock.
C18_PastDatesAgree ==
  (last.op \in {"available", "create-order"} /\ last.res # "none")
    => (last.res = "400 PAST_DATE" <=> last.date < Today)

\* C19: while the meeting-link provisioner is being called for a reservation,
\* the reservation is already stored as (confirmed, completed).
C19_PersistedBeforeMeet ==
  \A p \in Procs :
    (pc[p] = "cap_meet" /\ Exists(loc[p].id)) => Settled(appointments[loc[p].id])

\* C20: the meeting-link provisioner is invoked at most once per reservation.
C20_MeetOnce == \A i \in Ids : meetCalls[i] <= 1

\* C21: a capture-order that loads the reservation with paymentStatus
\* completed takes the short-circuit, and the short-circuit answers with the
\* reservation as it is stored (confirmed), without a call to the provider's
\* capture, without a call of the meeting-link provisioner and without a
\* write to the reservation.
C21_ShortCircuitFrame ==
  [][\A p \in Procs :
       /\ \A u \in Users, a \in Ids, o \in Ids :
            (/\ CaptureBegin(p, u, a, o)
             /\ a \in DOMAIN appointments
             /\ appointments[a].userId = u
             /\ appointments[a].paymentInfo.paypalOrderId = o
             /\ appointments[a].paymentStatus = "completed")
              => /\ pc'[p] = "cap_short"
                 /\ UNCHANGED <<appointments, orders, meetCalls, completions>>
       /\ (pc[p] = "cap_short" /\ pc'[p] # "cap_short")
            => /\ pc'[p] = "idle"
               /\ UNCHANGED <<appointments, orders, meetCalls, completions>>
               /\ loc[p].id \in DOMAIN appointments
                    => /\ last'.res = "200 already completed"
                       /\ last'.status = "confirmed"
                       /\ last'.paymentStatus
                            = appointments[loc[p].id].paymentStatus]_vars

\* a capture-order has loaded a paid reservation, whose order the provider
\* has captured, and is on the short-circuit
C21_Witness ==
  \E p \in Procs :
    /\ pc[p] = "cap_short"
    /\ loc[p].id \in DOMAIN appointments
    /\ Settled(appointments[loc[p].id])
    /\ orders[loc[p].orderId] = "completed"

\* C22: a capture-order request calls the provider's capture at most once:
\* whenever it calls, it has not called before, and it does not come back
\* to the call; and the provider captures an order at most once: a capture
\* takes an order that was created and not yet captured, and a captured
\* order stays captured.
C22_SingleCapture ==
  [][/\ \A p \in Procs :
          /\ CaptureCall(p) => (loc[p].captureCalls = 0 /\ pc'[p] # "cap_capture")
          /\ pc'[p] = "cap_capture" => pc[p] \in {"idle", "cap_capture"}
     /\ \A o \in Ids :
          /\ orders[o] = "completed" => orders'[o] = "completed"
          /\ (orders[o] # "completed" /\ orders'[o] = "completed")
               => /\ orders[o] = "created"
                  /\ \E p \in Procs : pc[p] = "cap_capture" /\ loc[p].orderId = o
                                        /\ loc[p].captureCalls = 0]_vars

\* a second capture-order has called the provider for an order that is
\* captured, and was refused
C22_Witness ==
  \E p \in Procs :
    /\ pc[p] = "cap_fetch"
    /\ loc[p].captureCalls = 1
    /\ orders[loc[p].orderId] = "completed"

\* C23: (pending, failed) is terminal: a reservation whose paymentStatus is
\* failed stays stored, pending and failed, whatever capture-order,
\* cancel-order and cleanup-pending do.
C23_FailedIsTerminal ==
  [][\A i \in DOMAIN appointments :
       appointments[i].paymentStatus = "failed"
         => /\ i \in DOMAIN appointments'
            /\ appointments'[i].status = appointments[i].status
            /\ appointments'[i].paymentStatus = "failed"]_vars

\* C24: the stored link and the stored calendar event id of a reservation
\* always belong together: the link is one of the stored event, so that no
\* stored reservation pairs the id of a newly created event with the
\* previous or a missing link, or a new link with the id of a replaced event.
C24_LinkAndEventTogether ==
  \A x \in Rows : EventOfLink(x.googleMeetLink) = x.googleCalendarEventId

\* C25: a reservation whose order the provider has captured is not lost:
\* while the capture-order that got the capture has still to save the
\* reservation, no step deletes the row.
C25_CapturedNotLost ==
  [][\A p \in Procs :
       (/\ pc[p] \in {"cap_meet", "cap_save"}
        /\ orders[loc[p].orderId] = "completed"
        /\ loc[p].id \in DOMAIN appointments)
         => loc[p].id \in DOMAIN appointments']_vars

\* C26: a create-order that answers with an error leaves no reservation
\* behind: the hold it stored, if it stored one, is not in the store when
\* the error is answered.
C26_ErrorLeavesNoHold ==
  [][(last' # last /\ last'.op = "create-order" /\ last'.res # "201")
       => last'.id \notin DOMAIN appointments']_vars

OnGrid(s) == SlotMinutes(s) >= 9 * 60 /\ SlotMinutes(s) <= 17 * 60 + 30

\* C28: every reservation create-order stores has a bookedSlots that is not
\* empty, contains the start time and holds slots of the grid only.
C28_BookedSlotsValid ==
  \A x \in Rows :
    /\ x.bookedSlots # {}
    /\ x.time \in x.bookedSlots
    /\ \A s \in x.bookedSlots : OnGrid(s)

\* C29: the cancellation routes delete nothing but the reservation the
\* caller named and owns, at every step of the deletion chain, and answer
\* with success only when that reservation is no longer stored.
C29_CancelOnlyOwn ==
  /\ [][\A p \in Procs :
          (pc[p] \in {"uc_pre", "uc_del1", "uc_del2", "uc_del3", "uc_verify"}
             /\ pc'[p] # pc[p])
            => /\ \A i \in DOMAIN appointments \ DOMAIN appointments' :
                    i = loc[p].id /\ appointments[i].userId = loc[p].user
               /\ \A i \in DOMAIN appointments' :
                    i \in DOMAIN appointments /\ appointments'[i] = appointments[i]]_vars
  /\ [][(last' # last /\ last'.op \in UserCancelOps)
          => /\ appointments' = appointments
             /\ last'.res = "200" => last'.id \notin DOMAIN appointments']_vars

\* a cancellation has deleted the caller's reservation and answered 200
C29_Witness ==
  /\ last.op \in UserCancelOps
  /\ last.res = "200"
  /\ last.id # 0
  /\ last.id \notin DOMAIN appointments

\* the last reading of the modelled clock
LastClock == (MaxTime \div ClockStep) * ClockStep

\* reservation i is stored as a (pending, pending) hold whose 15 minutes end
\* before the last reading of the clock
Held(i) ==
  /\ i \in DOMAIN appointments
  /\ appointments[i].status = "pending"
  /\ appointments[i].paymentStatus = "pending"
  /\ appointments[i].createdAt + HOLD_TTL < LastClock

\* C30: with cleanup-pending called again and again, no reservation stays
\* (pending, pending) forever: every hold is eventually confirmed / completed,
\* failed or deleted, whether or not its order was ever created or approved.
C30_HoldsEnd ==
  \A i \in Ids :
    Held(i) ~> (\/ i \notin DOMAIN appointments
                \/ Settled(appointments[i])
                \/ appointments[i].paymentStatus = "failed")

\* a sweep has removed a hold whose provider order was never created
C30_Witness ==
  /\ last.op = "cleanup-pending"
  /\ last.deletedCount >= 1
  /\ \E i \in Ids : i < nextId /\ i \notin DOMAIN appointments /\ orders[i] = "none"

====
